---- MODULE Spec2Model ----
(***************************************************************************)
(* Session/connection multiplexer of the Playwright MCP server for Azure:  *)
(*   - ElevenLabsHandler (elevenLabsIntegration): the contexts map, the     *)
(*     asynchronous handleRequest / closeSession / clientTools handlers;    *)
(*   - azureServer.ts: the /sse and /mcp routes with the sseSessions and    *)
(*     streamableSessions registries.                                       *)
(* Every await of the source is a suspension point: the code between two   *)
(* awaits is one atomic action (single-threaded event loop).               *)
(***************************************************************************)
EXTENDS Integers, FiniteSets, Sequences, Bags, TLC

\* ---------------------------------------------------------------- bounds
MaxCtx == 2          \* Contexts referenced at once
MaxReq == 2          \* handleRequest calls in flight at once
MaxClose == 1        \* closeSession calls in flight at once
MaxTransports == 2   \* transports ever constructed by the routes
MaxTime == 31        \* largest `time` (seconds) a wait request asks for

\* ---------------------------------------------------------------- values
NoId == "none"                       \* request.sessionId absent / header absent
Ids == {"s1"}                        \* session ids a client can send
ClientIps == {"10.0.0.7"}            \* req.ip of the clients
Keys == Ids \cup ClientIps \cup {"default"}   \* keys of the contexts map
NoCtx == 0
NoT == 0
NoSid == 0                           \* sessionId parameter / mcp-session-id header absent
TransportIds == 1..MaxTransports
SessionIds == 1..MaxTransports       \* the ids the generators hand out
CtxIds == 1..MaxCtx
Actions == {"navigate", "screenshot", "bogus"}

VARIABLES
  contexts,   \* ElevenLabsHandler.contexts : key -> Context (NoCtx = no entry)
  ctxs,       \* the Context objects that are referenced
  lost,       \* a Context was dropped that closeSession had not removed
  req,        \* handleRequest invocations in flight (a bag of records)
  closer,     \* closeSession invocations in flight (a bag of records)
  tool,       \* the clientTools handler invocation
  response,   \* the last response of the handler: of handleRequest "success"
              \* | "noTab" (success:false with the error of currentTabOrDie)
              \* | "fail" (success:false with any other error); of tools/call
              \* "toolResult" | "toolError"
  sseSessions,        \* azureServer sseSessions : id -> transport (NoT = no entry)
  streamableSessions, \* azureServer streamableSessions : id -> transport
  transports, \* the transports constructed so far, with their connections
  nTransports,\* number of transports constructed
  last,       \* the last HTTP exchange answered by a route
  proc,       \* the process: "running" | "cleanup" (a signal handler awaits
              \* elevenLabsHandler.cleanup()) | "exited"
  config,     \* the FullConfig the ElevenLabsHandler was constructed with
  act,        \* the action handler or tool listing that runs on its own
  services    \* startServer: where it is (pc), whether mcpServer and
              \* elevenLabsHandler are set, whether the HTTP server listens

hvars == <<contexts, ctxs, lost, req, closer, tool, response>>
svars == <<sseSessions, streamableSessions, transports, nTransports, last>>
avars == <<config, act, services>>
vars == <<contexts, ctxs, lost, req, closer, tool, response,
          sseSessions, streamableSessions, transports, nTransports, last, proc,
          config, act, services>>

\* ------------------------------------------------------- configuration
\* capability tags of the tools beside "core"
Capabilities == {"pdf", "tabs"}
\* config.vision, config.capabilities
Configs == [vision : BOOLEAN, capabilities : SUBSET Capabilities]
DefaultConfig == [vision |-> FALSE, capabilities |-> {}]
IdleAct == [kind |-> "idle"]

\* startServer() has called initializeServices(), which is suspended at
\* `await resolveCLIConfig(...)`: the module variables are unset
Uninitialized ==
  [pc |-> "resolveCLIConfig", mcpServer |-> FALSE, elevenLabsHandler |-> FALSE,
   listening |-> FALSE]
\* initializeServices() has returned and app.listen has been called
Started ==
  [pc |-> "started", mcpServer |-> TRUE, elevenLabsHandler |-> TRUE,
   listening |-> TRUE]

\* ------------------------------------------------------------- Context
\* tabs: open tabs; env: the browser context exists; reg is a history field:
\* what the contexts map did with the Context
\* ("unset" | "set" | "overwritten" | "deleted").  A Context that nothing
\* references any more is garbage: its identity is free to stand for a later
\* Context ("free").
FreeCtx == [reg |-> "free", tabs |-> 0, env |-> FALSE]

\* new Context(this.tools, this.config, factory)
NewContext == [reg |-> "unset", tabs |-> 0, env |-> FALSE]

\* the identity of the next Context constructed
HasFreeCtx == \E k \in CtxIds : ctxs[k].reg = "free"
NextCtx == CHOOSE k \in CtxIds :
             ctxs[k].reg = "free" /\ \A j \in CtxIds : j < k => ctxs[j].reg # "free"

\* faulty variant: every request is keyed 'default'
SessionKey_AlwaysDefault(sessionId) == "default"

\* request.sessionId || 'default'
SessionKey(sessionId) == IF sessionId = NoId THEN "default" ELSE sessionId

\* this.contexts.get(key)
ContextsGet(key) == contexts[key]

\* this.contexts.set(key, k): the map after the call, and the Context records
\* (history: an entry that is replaced becomes "overwritten")
ContextsSet(key, k) == [contexts EXCEPT ![key] = k]
CtxsAfterSet(cs, key, k) ==
  [j \in CtxIds |->
     IF j = k THEN [cs[j] EXCEPT !.reg = "set"]
     ELSE IF contexts[key] = j THEN [cs[j] EXCEPT !.reg = "overwritten"]
     ELSE cs[j]]

\* this.contexts.delete(key)
ContextsDelete(key) == [contexts EXCEPT ![key] = NoCtx]
CtxsAfterDelete(cs, key) ==
  [j \in CtxIds |->
     IF contexts[key] = j THEN [cs[j] EXCEPT !.reg = "deleted"] ELSE cs[j]]

\* context.currentTabOrDie(): TRUE when it returns a tab, FALSE when it throws
CurrentTabOrDie(c) == c.tabs > 0

\* context.ensureTab(): creates the browsing environment and a first tab when
\* there is no tab, otherwise returns the current tab
EnsureTab(c) == IF c.tabs = 0 THEN [c EXCEPT !.tabs = 1, !.env = TRUE] ELSE c

\* ------------------------------------------------------- invocations
\* The asynchronous invocations in flight are kept as bags of records: the
\* invocations of one method are interchangeable, only their states matter.
Add(bag, r) == bag (+) SetToBag({r})
Remove(bag, r) == bag (-) SetToBag({r})
Replace(bag, old, new) == Add(Remove(bag, old), new)
InFlight(bag) == BagToSet(bag)

\* Context k is referenced by the map or by an invocation in flight
Reachable(k, map, rq, cl, tl) ==
  \/ \E key \in Keys : map[key] = k
  \/ \E r \in InFlight(rq) : r.ctx = k
  \/ \E c \in InFlight(cl) : c.ctx = k
  \/ tl.ctx = k

\* the handler's state after a step: a Context that has become unreachable is
\* dropped; `lost` remembers that one was dropped which closeSession never
\* removed from the map
HandlerStep(map, cs, rq, cl, tl, resp) ==
  LET dropped == {k \in CtxIds : cs[k].reg # "free"
                                   /\ ~Reachable(k, map, rq, cl, tl)}
  IN /\ contexts' = map
     /\ req' = rq
     /\ closer' = cl
     /\ tool' = tl
     /\ response' = resp
     /\ ctxs' = [k \in CtxIds |-> IF k \in dropped THEN FreeCtx ELSE cs[k]]
     /\ lost' = (lost \/ \E k \in dropped : cs[k].reg # "deleted")

\* a step of a method of the handler: the process is alive, and the routes'
\* registries and the process state are left alone
Commit(map, cs, rq, cl, tl, resp) ==
  /\ proc \notin {"exited", "failed"}
  /\ services.elevenLabsHandler
  /\ HandlerStep(map, cs, rq, cl, tl, resp)
  /\ UNCHANGED <<svars, proc, avars>>

\* a closeSession in flight has started closing the tabs or the browser
\* context of Context k (it starts with its first step)
Closing(k) == \E c \in InFlight(closer) : c.ctx = k

\* ------------------------------------------------------- handleRequest
\* pc: "awaitCreate" (await this.createContext()), "ensureTab" (handleNavigate:
\* await context.ensureTab()), "acting" (the later awaits of an action handler)
NewReq(sessionId, action) ==
  [pc |-> "start", sessionId |-> sessionId, action |-> action, ctx |-> NoCtx,
   stale |-> FALSE]

\* faulty variant: an action that needs a tab proceeds without one
Dispatch_NoTabCheck(r, c) ==
  CASE r.action = "navigate" -> [r EXCEPT !.pc = "ensureTab"]
    [] r.action = "screenshot" -> [r EXCEPT !.pc = "acting"]
    [] OTHER -> [r EXCEPT !.pc = "returned"]

\* the switch of handleRequest up to the first await of the action handler:
\* where the invocation suspends, "returned" when it has already answered
\* success:false (currentTabOrDie threw, or `Unknown action`)
Dispatch(r, c) ==
  CASE r.action = "navigate" -> [r EXCEPT !.pc = "ensureTab"]
    [] r.action = "screenshot" ->
         IF CurrentTabOrDie(c) THEN [r EXCEPT !.pc = "acting"]
         ELSE [r EXCEPT !.pc = "returned"]
    [] OTHER -> [r EXCEPT !.pc = "returned"]

\* the invocations and the response once invocation `old` has become `r`
ReqAfter(old, r) ==
  IF r.pc = "returned"
  THEN IF old.pc = "start" THEN req ELSE Remove(req, old)
  ELSE IF old.pc = "start" THEN Add(req, r) ELSE Replace(req, old, r)
ResponseAfter(r) ==
  IF r.pc # "returned" THEN response
  ELSE IF r.action = "screenshot" THEN "noTab" ELSE "fail"

\* handleRequest, from the call to its first await
HandleRequestStart(sessionId, action) ==
  /\ BagCardinality(req) < MaxReq
  /\ LET key == SessionKey(sessionId)
         k == ContextsGet(key)
         r0 == NewReq(sessionId, action)
     IN IF k # NoCtx
        THEN LET r == Dispatch([r0 EXCEPT !.ctx = k, !.stale = Closing(k)],
                               ctxs[k])
             IN Commit(contexts, ctxs, ReqAfter(r0, r), closer, tool,
                       ResponseAfter(r))
        ELSE /\ HasFreeCtx
             /\ Commit(contexts, [ctxs EXCEPT ![NextCtx] = NewContext],
                       Add(req, [r0 EXCEPT !.pc = "awaitCreate", !.ctx = NextCtx]),
                       closer, tool, response)

\* what POST /api/browser-action hands to handleRequest: sessionId || req.ip
\* (ip NoId: req.ip is undefined, the socket is gone)
RouteSessionId(sessionId, ip) == IF sessionId # NoId THEN sessionId ELSE ip

\* POST /api/browser-action with an action: handleRequest is called with the
\* body's sessionId or else the client address
BrowserAction(sessionId, ip, action) ==
  HandleRequestStart(RouteSessionId(sessionId, ip), action)

\* after `await this.createContext()`: contexts.set, then the switch
HandleRequestRegister(r) ==
  /\ r \in InFlight(req)
  /\ r.pc = "awaitCreate"
  /\ LET key == SessionKey(r.sessionId)
         r2 == Dispatch(r, ctxs[r.ctx])
     IN Commit(ContextsSet(key, r.ctx), CtxsAfterSet(ctxs, key, r.ctx),
               ReqAfter(r, r2), closer, tool, ResponseAfter(r2))

\* handleNavigate: `await context.ensureTab()` completes or throws
HandleNavigateEnsureTab(r, ok) ==
  /\ r \in InFlight(req)
  /\ r.pc = "ensureTab"
  /\ IF ok
     THEN Commit(contexts, [ctxs EXCEPT ![r.ctx] = EnsureTab(@)],
                 Replace(req, r, [r EXCEPT !.pc = "acting"]), closer, tool,
                 response)
     ELSE Commit(contexts, ctxs, Remove(req, r), closer, tool, "fail")

\* faulty variant: a throw of the action handler is not caught
HandleActionDone_Rejects(r, ok) ==
  /\ r \in InFlight(req)
  /\ r.pc = "acting"
  /\ Commit(contexts, ctxs, Remove(req, r), closer, tool,
            IF ok THEN "success" ELSE "rejected")

\* the remaining awaits of an action handler complete (success) or one of
\* them throws (caught by handleRequest: success:false)
HandleActionDone(r, ok) ==
  /\ r \in InFlight(req)
  /\ r.pc = "acting"
  /\ Commit(contexts, ctxs, Remove(req, r), closer, tool,
            IF ok THEN "success" ELSE "fail")

\* ------------------------------------------------------- closeSession
\* pc: "closingTabs" (await tab.page.close()), "closingEnv"
\* (await browserContext.close())

\* a closeSession invocation suspended at an await; by: "client" (DELETE
\* /api/session/:sessionId) | "cleanup" (ElevenLabsHandler.cleanup)
NewCloser(pc, id, k, by) == [pc |-> pc, id |-> id, ctx |-> k, by |-> by]

\* closeSession(id), from the call to its first await.  With no entry it
\* returns at once; otherwise it starts closing the first tab, or the browser
\* context when there is no tab, or (nothing to close) deletes the entry.
CloseSessionStart(id) ==
  /\ BagCardinality(closer) < MaxClose
  /\ LET k == ContextsGet(id) IN
       IF k = NoCtx
       THEN UNCHANGED vars
       ELSE IF ctxs[k].tabs > 0
       THEN Commit(contexts, ctxs, req,
                   Add(closer, NewCloser("closingTabs", id, k, "client")),
                   tool, response)
       ELSE IF ctxs[k].env
       THEN Commit(contexts, ctxs, req,
                   Add(closer, NewCloser("closingEnv", id, k, "client")),
                   tool, response)
       ELSE Commit(ContextsDelete(id), CtxsAfterDelete(ctxs, id), req, closer,
                   tool, response)

\* `await tab.page.close()` completes: the loop ends (a Context of the handler
\* has one tab) and the browser context close is started, if there is one
CloseSessionTabClosed(c) ==
  /\ c \in InFlight(closer)
  /\ c.pc = "closingTabs"
  /\ LET cs == [ctxs EXCEPT ![c.ctx].tabs = 0]
     IN IF ctxs[c.ctx].env
        THEN Commit(contexts, cs, req,
                    Replace(closer, c, [c EXCEPT !.pc = "closingEnv"]), tool,
                    response)
        ELSE Commit(ContextsDelete(c.id), CtxsAfterDelete(cs, c.id), req,
                    Remove(closer, c), tool, response)

\* `await browserContext.close()` completes, then contexts.delete
CloseSessionEnvClosed(c) ==
  /\ c \in InFlight(closer)
  /\ c.pc = "closingEnv"
  /\ Commit(ContextsDelete(c.id),
            CtxsAfterDelete([ctxs EXCEPT ![c.ctx].env = FALSE], c.id), req,
            Remove(closer, c), tool, response)

\* faulty variant: a throw of a close call leaves closeSession before the delete
CloseSessionCloseFailed_Rethrow(c) ==
  /\ c \in InFlight(closer)
  /\ Commit(contexts, ctxs, req, Remove(closer, c), tool, response)

\* a close call throws: caught and logged, then contexts.delete
CloseSessionCloseFailed(c) ==
  /\ c \in InFlight(closer)
  /\ Commit(ContextsDelete(c.id), CtxsAfterDelete(ctxs, c.id), req,
            Remove(closer, c), tool, response)

\* ------------------------------------------- clientTools tool handlers
ToolNames == {"browser_navigate", "browser_take_screenshot"}
IdleTool == [pc |-> "idle", name |-> "none", ctx |-> NoCtx]

\* property names that every object literal inherits from Object.prototype
\* and whose value is a function; "toString" stands for them
ObjectPrototypeNames == {"toString"}

\* clientToolsConfig.clientTools[params.name], clientTools being an object
\* literal filled with one handler per tool
ClientToolsLookup(name) ==
  IF name \in ToolNames THEN "handler"
  ELSE IF name \in ObjectPrototypeNames THEN "inherited"
  ELSE "undefined"

\* POST /api/elevenlabs-tools tools/call: look the tool up in
\* getClientToolsConfig().  A tool handler constructs a Context of its own;
\* an inherited function returns a value at once, which is answered as the
\* result; with no function, `Tool not found` is thrown and answered as error
ToolCallStart(name) ==
  /\ tool.pc = "idle"
  /\ CASE ClientToolsLookup(name) = "handler" ->
            /\ HasFreeCtx
            /\ Commit(contexts, [ctxs EXCEPT ![NextCtx] = NewContext], req,
                      closer,
                      [pc |-> "awaitCreate", name |-> name, ctx |-> NextCtx],
                      response)
       [] ClientToolsLookup(name) = "inherited" ->
            Commit(contexts, ctxs, req, closer, tool, "toolResult")
       [] OTHER -> Commit(contexts, ctxs, req, closer, tool, "toolError")

\* after `await this.createContext()`: context.run(tool, parameters) starts
ToolCallRun ==
  /\ tool.pc = "awaitCreate"
  /\ Commit(contexts, ctxs, req, closer, [tool EXCEPT !.pc = "running"], response)

\* context.run completes or throws; browser_navigate opens a tab in the
\* handler's own Context
ToolCallDone(ok) ==
  /\ tool.pc = "running"
  /\ Commit(contexts,
            IF ok /\ tool.name = "browser_navigate"
            THEN [ctxs EXCEPT ![tool.ctx] = EnsureTab(@)] ELSE ctxs,
            req, closer, IdleTool,
            IF ok THEN "toolResult" ELSE "toolError")

\* ------------------------------------------------------- transports
\* kind: "sse" (SSEServerTransport) | "streamable" (StreamableHTTPServerTransport)
\* sessionId: transport.sessionId (0 = undefined)
\* conn: the Connection of mcpServer.createConnection(transport):
\*       "pending" | "open" | "failed" | "closing" | "closed"
\* listener: the close listener of the SSE response is registered
\* closed: the SSE response / the transport has closed
\* body: the body of the POST that constructed a Streamable transport
NoTransport == [kind |-> "none", sessionId |-> 0, conn |-> "none",
                listener |-> FALSE, closed |-> FALSE, body |-> "none"]

\* faulty variant: the generator hands out one id again and again
NewSessionId_Fixed(n) == 1

\* crypto.randomUUID(): the id handed to the n-th transport; never repeats
NewSessionId(n) == n

MapSet(m, id, t) == [m EXCEPT ![id] = t]
MapDelete(m, id) == [m EXCEPT ![id] = NoT]
Registered(m) == {id \in SessionIds : m[id] # NoT}

\* code: the error.code of a JSON-RPC answer (0: the answer holds no error)
\* result: what the route itself put in the answer: "initializeResult"
\* ({protocolVersion, capabilities, serverInfo}) | "tools" ({tools}) |
\* "content" ({content}) | "config" (the clientTools configuration) | "none"
Exchange(route, method, body, sid, status, to) ==
  [n |-> 1 - last.n, route |-> route, method |-> method, body |-> body,
   sid |-> sid, status |-> status, to |-> to, code |-> 0, result |-> "none"]

\* a step of a route: the process is alive and the HTTP server listens; the
\* handler and the process state are left alone
RouteStep ==
  /\ proc \notin {"exited", "failed"}
  /\ services.listening
  /\ UNCHANGED <<hvars, proc, avars>>

\* ------------------------------------------------------------- /sse
\* faulty variant: a POST with an unknown id is handed to the newest transport
HandleSSEPost_Fallback(sid) ==
  /\ last' = IF sid = NoSid THEN Exchange("sse", "POST", "other", sid, 400, NoT)
             ELSE IF sseSessions[sid] = NoT
             THEN Exchange("sse", "POST", "other", sid, 202, nTransports)
             ELSE Exchange("sse", "POST", "other", sid, 202, sseSessions[sid])
  /\ UNCHANGED <<sseSessions, streamableSessions, transports, nTransports>>
  /\ RouteStep

\* handleSSE, POST branch
HandleSSEPost(sid) ==
  /\ last' = IF sid = NoSid THEN Exchange("sse", "POST", "other", sid, 400, NoT)
             ELSE IF sseSessions[sid] = NoT
             THEN Exchange("sse", "POST", "other", sid, 404, NoT)
             ELSE Exchange("sse", "POST", "other", sid, 202, sseSessions[sid])
  /\ UNCHANGED <<sseSessions, streamableSessions, transports, nTransports>>
  /\ RouteStep

\* handleSSE, GET branch (and the SSE branch of GET /tools), up to
\* `await mcpServer.createConnection(transport)`
HandleSSEGet ==
  /\ nTransports < MaxTransports
  /\ LET t == nTransports + 1
         id == NewSessionId(t)
     IN /\ nTransports' = t
        /\ transports' = [transports EXCEPT ![t] =
              [NoTransport EXCEPT !.kind = "sse", !.sessionId = id,
                                  !.conn = "pending"]]
        /\ sseSessions' = MapSet(sseSessions, id, t)
  /\ UNCHANGED <<streamableSessions, last>>
  /\ RouteStep

\* createConnection resolves: res.on('close', ...) is registered;
\* or it rejects: the route answers 500 and registers nothing
HandleSSEConnected(t, ok) ==
  /\ transports[t].kind = "sse"
  /\ transports[t].conn = "pending"
  /\ IF ok
     THEN /\ transports' = [transports EXCEPT ![t].conn = "open",
                                              ![t].listener = TRUE]
          /\ UNCHANGED last
     ELSE /\ transports' = [transports EXCEPT ![t].conn = "failed"]
          /\ last' = Exchange("sse", "GET", "other", NoSid, 500, NoT)
  /\ UNCHANGED <<sseSessions, streamableSessions, nTransports>>
  /\ RouteStep

\* faulty variant: the close listener leaves the entry in place
SseCloseListener_NoDelete(m, id) == m

\* the close listener, up to the end of its synchronous part: the registry
\* after sseSessions.delete(transport.sessionId), before connection.close()
SseCloseListener(m, id) == MapDelete(m, id)

\* faulty variant: the listener awaits connection.close() before it deletes the entry
SSEResponseClose_DeleteLate(t) ==
  /\ transports[t].kind = "sse"
  /\ ~transports[t].closed
  /\ transports' = [transports EXCEPT ![t].closed = TRUE,
         ![t].conn = IF transports[t].listener THEN "closing" ELSE @]
  /\ UNCHANGED <<sseSessions, streamableSessions, nTransports, last>>
  /\ RouteStep

\* the SSE response closes (the client goes away); the close listener, when
\* registered, runs: sseSessions.delete, then connection.close() is started
SSEResponseClose(t) ==
  /\ transports[t].kind = "sse"
  /\ ~transports[t].closed
  /\ IF transports[t].listener
     THEN /\ sseSessions' = SseCloseListener(sseSessions, transports[t].sessionId)
          /\ transports' = [transports EXCEPT ![t].closed = TRUE,
                                              ![t].conn = "closing"]
     ELSE /\ transports' = [transports EXCEPT ![t].closed = TRUE]
          /\ UNCHANGED sseSessions
  /\ UNCHANGED <<streamableSessions, nTransports, last>>
  /\ RouteStep

\* connection.close() settles (a rejection is only logged)
ConnectionClosed(t) ==
  /\ transports[t].conn = "closing"
  /\ transports' = [transports EXCEPT ![t].conn = "closed"]
  /\ UNCHANGED <<sseSessions, streamableSessions, nTransports, last>>
  /\ RouteStep

\* ------------------------------------------------------------- /mcp
Methods == {"POST", "GET", "DELETE"}
\* "initialize": body.method === 'initialize'; "initBatch": a JSON-RPC batch
\* holding an initialize request (body.method is undefined); "other"
Bodies == {"initialize", "initBatch", "other"}

\* transport.onclose of a Streamable transport
StreamableOnClose(m, t) ==
  IF transports[t].sessionId # 0 THEN MapDelete(m, transports[t].sessionId) ELSE m

\* app.use('/mcp'), up to its first await that changes state
HandleMcp(method, body, sid) ==
  /\ method # "POST" => body = "other"
  /\ IF method = "POST" /\ body = "initialize"
     THEN \* the tool list is returned, whatever the header (503 while
          \* mcpServer is unset)
          /\ last' = IF ~services.mcpServer
                     THEN Exchange("mcp", method, body, sid, 503, NoT)
                     ELSE [Exchange("mcp", method, body, sid, 200, NoT)
                             EXCEPT !.result = "tools"]
          /\ UNCHANGED <<streamableSessions, transports, nTransports>>
     ELSE IF sid # NoSid
     THEN IF streamableSessions[sid] = NoT
          THEN /\ last' = Exchange("mcp", method, body, sid, 404, NoT)
               /\ UNCHANGED <<streamableSessions, transports, nTransports>>
          ELSE \* transport.handleRequest(req, res); a DELETE closes the transport
               LET t == streamableSessions[sid] IN
               /\ last' = Exchange("mcp", method, body, sid, 200, t)
               /\ IF method = "DELETE"
                  THEN /\ streamableSessions' = StreamableOnClose(streamableSessions, t)
                       /\ transports' = [transports EXCEPT ![t].closed = TRUE]
                  ELSE UNCHANGED <<streamableSessions, transports>>
               /\ UNCHANGED nTransports
     ELSE IF method = "POST"
     THEN /\ nTransports < MaxTransports
          /\ nTransports' = nTransports + 1
          /\ transports' = [transports EXCEPT ![nTransports + 1] =
                [NoTransport EXCEPT !.kind = "streamable", !.conn = "pending",
                                    !.body = body]]
          /\ UNCHANGED <<streamableSessions, last>>
     ELSE /\ last' = Exchange("mcp", method, body, sid, 400, NoT)
          /\ UNCHANGED <<streamableSessions, transports, nTransports>>
  /\ UNCHANGED sseSessions
  /\ RouteStep

\* new-session branch after `await mcpServer.createConnection(transport)`:
\* transport.handleRequest(req, res).  The transport initializes its session
\* (sessionIdGenerator, onsessioninitialized) when the message holds an
\* initialize request and rejects any other first message with 400.
HandleMcpConnected(t, ok) ==
  /\ transports[t].kind = "streamable"
  /\ transports[t].conn = "pending"
  /\ IF ~ok
     THEN /\ transports' = [transports EXCEPT ![t].conn = "failed"]
          /\ last' = Exchange("mcp", "POST", transports[t].body, NoSid, 500, NoT)
          /\ UNCHANGED streamableSessions
     ELSE IF transports[t].body = "initBatch"
     THEN /\ transports' = [transports EXCEPT ![t].conn = "open",
                                              ![t].sessionId = NewSessionId(t)]
          /\ streamableSessions' = MapSet(streamableSessions, NewSessionId(t), t)
          /\ last' = Exchange("mcp", "POST", transports[t].body, NoSid, 200, t)
     ELSE /\ transports' = [transports EXCEPT ![t].conn = "open"]
          /\ last' = Exchange("mcp", "POST", transports[t].body, NoSid, 400, t)
          /\ UNCHANGED streamableSessions
  /\ UNCHANGED <<sseSessions, nTransports>>
  /\ RouteStep

\* ------------------------------------- /api/mcp, /api/elevenlabs-tools
\* the JSON-RPC methods a client can send; "resources/list" stands for every
\* method that is none of initialize, tools/list, tools/call
RpcMethods == {"initialize", "tools/list", "tools/call", "resources/list"}
InternalError == -32603

RpcExchange(route, rpcMethod, status, code, result) ==
  [Exchange(route, "POST", rpcMethod, NoSid, status, NoT)
     EXCEPT !.code = code, !.result = result]

\* the answer of a catch block: error code -32603
RpcInternalError(route, rpcMethod, status) ==
  RpcExchange(route, rpcMethod, status, InternalError, "none")

\* POST /api/mcp: tools/list and tools/call are handed to mcpServer (ok: the
\* call resolves); every other method throws `Unknown MCP method`; the catch
\* answers every throw with error code -32603
HandleApiMcp(rpcMethod, ok) ==
  /\ last' = CASE rpcMethod = "tools/list" /\ ok ->
                    RpcExchange("api/mcp", rpcMethod, 200, 0, "tools")
               [] rpcMethod = "tools/call" /\ ok ->
                    RpcExchange("api/mcp", rpcMethod, 200, 0, "content")
               [] OTHER -> RpcInternalError("api/mcp", rpcMethod, 200)
  /\ UNCHANGED <<sseSessions, streamableSessions, transports, nTransports>>
  /\ RouteStep

\* POST /api/elevenlabs-tools: 503 while elevenLabsHandler is unset, then the
\* switch on body.method (ok: the handler calls of the branch do not throw).  The default branch answers with the
\* clientTools configuration.  The tool handler that tools/call runs is
\* ToolCallStart .. ToolCallDone; here only its answer is recorded.
HandleApiElevenLabsTools(rpcMethod, ok) ==
  /\ last' = CASE ~services.elevenLabsHandler ->
                    RpcInternalError("api/elevenlabs-tools", rpcMethod, 503)
               [] rpcMethod = "initialize" ->
                    RpcExchange("api/elevenlabs-tools", rpcMethod, 200, 0,
                                "initializeResult")
               [] rpcMethod = "tools/list" /\ ok ->
                    RpcExchange("api/elevenlabs-tools", rpcMethod, 200, 0, "tools")
               [] rpcMethod = "tools/call" /\ ok ->
                    RpcExchange("api/elevenlabs-tools", rpcMethod, 200, 0,
                                "content")
               [] rpcMethod = "tools/call" /\ ~ok ->
                    RpcInternalError("api/elevenlabs-tools", rpcMethod, 200)
               [] rpcMethod = "resources/list" /\ ok ->
                    RpcExchange("api/elevenlabs-tools", rpcMethod, 200, 0,
                                "config")
               [] OTHER -> RpcInternalError("api/elevenlabs-tools", rpcMethod, 500)
  /\ UNCHANGED <<sseSessions, streamableSessions, transports, nTransports>>
  /\ RouteStep

\* GET /tools without `Accept: text/event-stream`: 503 while mcpServer is
\* unset, otherwise the formatted tool list (ok: mcpServer.listTools()
\* resolves; a throw is answered 500)
GetTools(ok) ==
  /\ last' = IF ~services.mcpServer
             THEN Exchange("tools", "GET", "other", NoSid, 503, NoT)
             ELSE IF ok
             THEN [Exchange("tools", "GET", "other", NoSid, 200, NoT)
                     EXCEPT !.result = "tools"]
             ELSE Exchange("tools", "GET", "other", NoSid, 500, NoT)
  /\ UNCHANGED <<sseSessions, streamableSessions, transports, nTransports>>
  /\ RouteStep

\* ------------------------------------------------------------ startServer
\* the process has ended with process.exit(1) (proc = "failed")
StartFailed(sv) ==
  /\ services' = [sv EXCEPT !.pc = "failed"]
  /\ proc' = "failed"

\* faulty variant: the HTTP server listens before initializeServices has
\* finished
ConfigResolved_ListenFirst(ok) ==
  /\ proc = "running"
  /\ services.pc = "resolveCLIConfig"
  /\ IF ok
     THEN /\ services' = [services EXCEPT !.pc = "listTools", !.mcpServer = TRUE,
                                           !.listening = TRUE]
          /\ UNCHANGED proc
     ELSE StartFailed(services)
  /\ UNCHANGED <<hvars, svars, config, act>>

\* initializeServices after `await resolveCLIConfig(...)`: mcpServer = new
\* Server(config), then `await mcpServer.listTools()`; a throw (ok = FALSE) is
\* rethrown to startServer, whose catch calls process.exit(1)
ConfigResolved(ok) ==
  /\ proc = "running"
  /\ services.pc = "resolveCLIConfig"
  /\ IF ok
     THEN /\ services' = [services EXCEPT !.pc = "listTools", !.mcpServer = TRUE]
          /\ UNCHANGED proc
     ELSE StartFailed(services)
  /\ UNCHANGED <<hvars, svars, config, act>>

\* initializeServices after the listTools test, whose throw is caught and
\* logged: elevenLabsHandler = new ElevenLabsHandler(config), return; then
\* startServer calls app.listen, whose synchronous throw (ok = FALSE) is
\* caught: process.exit(1)
ServicesInitialized(ok) ==
  /\ proc = "running"
  /\ services.pc = "listTools"
  /\ IF ok
     THEN /\ services' = Started
          /\ UNCHANGED proc
     ELSE StartFailed([services EXCEPT !.elevenLabsHandler = TRUE])
  /\ UNCHANGED <<hvars, svars, config, act>>

\* a signal while elevenLabsHandler is unset: `elevenLabsHandler.cleanup()`
\* throws in the async listener; the unhandled rejection ends the process
\* with code 1 or is only reported, as the runtime is set up
SignalUninitialized ==
  /\ proc = "running"
  /\ ~services.elevenLabsHandler
  /\ proc' \in {proc, "failed"}
  /\ UNCHANGED <<hvars, svars, avars>>

\* --------------------------------------------------------- tool catalog
\* A field of a Zod object schema, as the handler reads it: isOptional is a
\* method of every Zod type (the handler reads the property, it does not call
\* it); _def.defaultValue is a function for a defaulted field and undefined
\* otherwise; def: the field has a _def.  mandatory is what the schema
\* declares (neither optional nor defaulted).
Field(mandatory, defaulted, def) ==
  [mandatory |-> mandatory, isOptional |-> "function",
   defaultValue |-> IF defaulted THEN "function" ELSE "undefined", def |-> def]

\* JavaScript truthiness of the values above
Truthy(v) == v # "undefined"

\* tool.schema.inputSchema: hasShape: it is a Zod object with a shape
NoShape == [hasShape |-> FALSE, keys |-> <<>>, field |-> <<>>]
Shape(keys, field) == [hasShape |-> TRUE, keys |-> keys, field |-> field]

Tool(name, capability, inputSchema) ==
  [name |-> name, description |-> name, capability |-> capability,
   inputSchema |-> inputSchema]

\* the catalogs of tools.js
SnapshotTools ==
  << Tool("browser_navigate", "core",
          Shape(<<"url">>, [k \in {"url"} |-> Field(TRUE, FALSE, TRUE)])),
     Tool("browser_pdf_save", "pdf", NoShape),
     Tool("browser_take_screenshot", "core",
          Shape(<<"raw", "filename">>,
                [k \in {"raw", "filename"} |->
                   Field(FALSE, k = "raw", k = "raw")])),
     Tool("browser_tab_list", "tabs", Shape(<<>>, <<>>)) >>
VisionTools ==
  << Tool("browser_screen_capture", "core", Shape(<<>>, <<>>)),
     Tool("browser_tab_list", "tabs", Shape(<<>>, <<>>)),
     Tool("browser_screen_click", "core",
          Shape(<<"element">>, [k \in {"element"} |-> Field(TRUE, FALSE, TRUE)])) >>

\* constructor: this.tools = config.vision ? visionTools : snapshotTools
HandlerTools(cfg) == IF cfg.vision THEN VisionTools ELSE SnapshotTools

\* getToolProperties: a throw (getZodType of a field without _def) is caught
\* and answered with {}
GetToolProperties(t) ==
  LET schema == t.inputSchema IN
  IF schema.hasShape /\ \A k \in DOMAIN schema.field : schema.field[k].def
  THEN [k \in DOMAIN schema.field |-> "type"]
  ELSE <<>>

\* getToolRequired: keys.filter(key => !field.isOptional &&
\* !field._def.defaultValue); a throw (a field without _def whose
\* isOptional is falsy) is caught and answered with []
GetToolRequired(t) ==
  LET schema == t.inputSchema
      keep(k) == /\ ~Truthy(schema.field[k].isOptional)
                 /\ ~Truthy(schema.field[k].defaultValue)
      throws == \E k \in DOMAIN schema.field :
                  ~Truthy(schema.field[k].isOptional) /\ ~schema.field[k].def
  IN IF schema.hasShape /\ ~throws THEN SelectSeq(schema.keys, keep) ELSE <<>>

\* getToolDefinitions
GetToolDefinitions(tools) ==
  [i \in 1..Len(tools) |->
     [name |-> tools[i].name, description |-> tools[i].description,
      parameters |-> [type |-> "object",
                      properties |-> GetToolProperties(tools[i]),
                      required |-> GetToolRequired(tools[i])]]]

\* the keys of getClientToolsConfig().clientTools, in insertion order
ClientToolsKeys(tools) == [i \in 1..Len(tools) |-> tools[i].name]

\* A tool of mcpServer.listTools(): its inputSchema is a JSON schema, which
\* may be absent, may lack `properties`, may lack `required`.
JsonSchemas ==
  { [present |-> FALSE],
    [present |-> TRUE],
    [present |-> TRUE, properties |-> {"url"}],
    [present |-> TRUE, properties |-> {"url"}, required |-> <<"url">>] }
ListedTools ==
  {[name |-> "browser_navigate", description |-> "browser_navigate",
    inputSchema |-> j] : j \in JsonSchemas}

\* the parameters every formatter starts from
DefaultParameters == [type |-> "object", properties |-> {}, required |-> <<>>]

\* faulty variant: schema.required is copied as it is
ToolsRouteParameters_NoDefault(schema) ==
  IF schema.present /\ "properties" \in DOMAIN schema
  THEN IF "required" \in DOMAIN schema
       THEN [type |-> "object", properties |-> schema.properties,
             required |-> schema.required]
       ELSE [type |-> "object", properties |-> schema.properties]
  ELSE DefaultParameters

\* GET /tools: parameters of a formatted tool (required: schema.required || [])
ToolsRouteParameters(schema) ==
  IF schema.present /\ "properties" \in DOMAIN schema
  THEN [type |-> "object", properties |-> schema.properties,
        required |-> IF "required" \in DOMAIN schema
                     THEN schema.required ELSE <<>>]
  ELSE DefaultParameters

\* POST /mcp initialize: parameters of a formatted tool.  conv is what
\* zodToJsonSchema(tool.inputSchema, tool.name) does: "object" (a schema with
\* type 'object' and properties), "ref" (a schema without a top-level type),
\* "throws"
McpRouteParameters(schema, conv) ==
  IF schema.present /\ conv = "object" /\ "properties" \in DOMAIN schema
  THEN [type |-> "object", properties |-> schema.properties,
        required |-> IF "required" \in DOMAIN schema
                     THEN schema.required ELSE <<>>]
  ELSE DefaultParameters

Conversions == {"object", "ref", "throws"}

\* getToolDefinitions() and getClientToolsConfig() of the handler
ListTools ==
  /\ act' = [kind |-> "toolDefinitions", tools |-> HandlerTools(config),
             out |-> GetToolDefinitions(HandlerTools(config)),
             keys |-> ClientToolsKeys(HandlerTools(config))]
  /\ UNCHANGED <<hvars, svars, proc, config, services>>

\* formattedTools of GET /tools ("tools") and of POST /mcp initialize ("mcp")
FormatTools(route, t, conv) ==
  /\ act' = [kind |-> "formattedTools", route |-> route, tools |-> <<t>>,
             out |-> << [name |-> t.name, description |-> t.description,
                         parameters |->
                           IF route = "tools"
                           THEN ToolsRouteParameters(t.inputSchema)
                           ELSE McpRouteParameters(t.inputSchema, conv)] >>]
  /\ UNCHANGED <<hvars, svars, proc, config, services>>

\* ------------------------------------------------ handleClick, handleType
\* the resolution strategies, in the order of the array literal
ClickStrategies ==
  <<"role=button", "role=link", "text", "label", "aria-label", "title">>
TypeStrategies ==
  <<"label", "placeholder", "role=textbox", "input[name]", "textarea[name]">>
Strategies(kind) == IF kind = "click" THEN ClickStrategies ELSE TypeStrategies
Elements == {"Submit"}

\* an action handler is not in progress
Finished(a) == a.kind \in {"click", "type"} => a.pc = "done"

Failure(error, names) == [success |-> FALSE, error |-> error, names |-> names]
Success == [success |-> TRUE, error |-> "none", names |-> "none"]
NoResult == [success |-> FALSE, error |-> "pending", names |-> "none"]

\* handleClick / handleType on a Context with a tab, up to the first await.
\* works: the strategies whose locator call would resolve; ref: params.ref is
\* given (handleClick); element "none": params.element is missing
HandleElementAction(kind, element, ref, works) ==
  /\ Finished(act)
  /\ works \subseteq 1..Len(Strategies(kind))
  /\ kind = "type" => ~ref
  /\ LET a == [kind |-> kind, element |-> element, works |-> works,
               log |-> <<>>, pc |-> "after", result |-> NoResult]
     IN act' = IF kind = "click" /\ element = "none"
               THEN [a EXCEPT !.pc = "done",
                              !.result = Failure("missingParameter", "none")]
               ELSE IF ref \/ element = "none"
               THEN a    \* locator(aria-ref).click() / keyboard.type(text)
               ELSE [a EXCEPT !.pc = "strategy", !.log = <<1>>]
  /\ UNCHANGED <<hvars, svars, proc, config, services>>

\* faulty variant: with no strategy having succeeded the handler goes on
AfterStrategies_NoCheck(a, found) ==
  IF a.kind = "click" THEN [a EXCEPT !.pc = "after"]
  ELSE [a EXCEPT !.pc = "done", !.result = Success]

\* the code after the loop: `if (!clicked) throw ...` (caught by the outer
\* catch and rethrown with the element in the message, then answered
\* success:false by handleRequest); handleClick goes on to its remaining
\* awaits, handleType returns success
AfterStrategies(a, found) ==
  IF ~found
  THEN [a EXCEPT !.pc = "done", !.result = Failure("notFound", a.element)]
  ELSE IF a.kind = "click" THEN [a EXCEPT !.pc = "after"]
  ELSE [a EXCEPT !.pc = "done", !.result = Success]

\* faulty variant: the loop does not break at a strategy that succeeded
StrategyLoop_NoBreak(a) ==
  LET i == a.log[Len(a.log)] IN
  IF i < Len(Strategies(a.kind)) THEN [a EXCEPT !.log = Append(@, i + 1)]
  ELSE AfterStrategies(a, \E j \in 1..Len(a.log) : a.log[j] \in a.works)

\* `await strategy()` settles: on success clicked = true and break; on a
\* throw the next strategy is invoked, or the loop ends
StrategyLoop(a) ==
  LET i == a.log[Len(a.log)] IN
  IF i \in a.works THEN AfterStrategies(a, TRUE)
  ELSE IF i < Len(Strategies(a.kind)) THEN [a EXCEPT !.log = Append(@, i + 1)]
  ELSE AfterStrategies(a, FALSE)

StrategySettles ==
  /\ act.kind \in {"click", "type"}
  /\ act.pc = "strategy"
  /\ act' = StrategyLoop(act)
  /\ UNCHANGED <<hvars, svars, proc, config, services>>

\* the remaining awaits of the handler complete, or one of them throws
ElementActionDone(ok) ==
  /\ act.kind \in {"click", "type"}
  /\ act.pc = "after"
  /\ act' = [act EXCEPT !.pc = "done",
               !.result = IF ok THEN Success ELSE Failure("failed", act.element)]
  /\ UNCHANGED <<hvars, svars, proc, config, services>>

\* ------------------------------------------------------------ handleWait
MaxSleepMs == 30000

\* faulty variant: the requested time is not capped
SleepMs_Uncapped(time) == time * 1000

\* the delay of the setTimeout: Math.min(30000, params.time * 1000); with a
\* falsy time (0) there is no sleep
SleepMs(time) ==
  IF time = 0 THEN 0
  ELSE IF time * 1000 < MaxSleepMs THEN time * 1000 ELSE MaxSleepMs

\* handleWait on a Context with a tab; text: params.text or params.textGone
\* is given; ok: the waits for the text do not time out
HandleWait(time, text, ok) ==
  /\ Finished(act)
  /\ act' = IF ~text /\ time = 0
            THEN [kind |-> "wait", time |-> time, slept |-> 0,
                  result |-> Failure("missingParameter", "none")]
            ELSE [kind |-> "wait", time |-> time, slept |-> SleepMs(time),
                  result |-> IF text /\ ~ok THEN Failure("failed", "none")
                             ELSE Success]
  /\ UNCHANGED <<hvars, svars, proc, config, services>>

\* ------------------------------------------------------------ shutdown
\* the keys of the contexts map
ContextsKeys == {key \in Keys : contexts[key] # NoCtx}

\* faulty variant: cleanup closes the sessions one after the other, so that
\* only the closeSession of the first key is started
Signal_FirstOnly ==
  /\ proc = "running"
  /\ services.elevenLabsHandler
  /\ LET keys == IF ContextsKeys = {} THEN {}
                 ELSE {CHOOSE key \in ContextsKeys : TRUE}
         idle == {key \in keys :
                    ctxs[contexts[key]].tabs = 0 /\ ~ctxs[contexts[key]].env}
         map == [key \in Keys |-> IF key \in idle THEN NoCtx ELSE contexts[key]]
         cs == [j \in CtxIds |->
                  IF \E key \in idle : contexts[key] = j
                  THEN [ctxs[j] EXCEPT !.reg = "deleted"] ELSE ctxs[j]]
         started == {NewCloser(IF ctxs[contexts[key]].tabs > 0
                               THEN "closingTabs" ELSE "closingEnv",
                               key, contexts[key], "cleanup") :
                       key \in keys \ idle}
     IN HandlerStep(map, cs, req, closer (+) SetToBag(started), tool, response)
  /\ proc' = "cleanup"
  /\ UNCHANGED <<svars, avars>>

\* process.on('SIGTERM' | 'SIGINT'): the handler calls
\* elevenLabsHandler.cleanup(), which starts closeSession(id) for every key of
\* contexts; each runs to its first await (or, with nothing to close, deletes
\* its entry at once).  The handler then awaits them all.  (The first signal;
\* the registries of the routes are not touched.)
Signal ==
  /\ proc = "running"
  /\ services.elevenLabsHandler
  /\ LET idle == {key \in ContextsKeys :
                    ctxs[contexts[key]].tabs = 0 /\ ~ctxs[contexts[key]].env}
         map == [key \in Keys |-> IF key \in idle THEN NoCtx ELSE contexts[key]]
         cs == [j \in CtxIds |->
                  IF \E key \in idle : contexts[key] = j
                  THEN [ctxs[j] EXCEPT !.reg = "deleted"] ELSE ctxs[j]]
         started == {NewCloser(IF ctxs[contexts[key]].tabs > 0
                               THEN "closingTabs" ELSE "closingEnv",
                               key, contexts[key], "cleanup") :
                       key \in ContextsKeys \ idle}
     IN HandlerStep(map, cs, req, closer (+) SetToBag(started), tool, response)
  /\ proc' = "cleanup"
  /\ UNCHANGED <<svars, avars>>

\* Promise.all of cleanup() has resolved
CleanupDone == ~ \E c \in InFlight(closer) : c.by = "cleanup"

\* `await elevenLabsHandler.cleanup()` returns: process.exit(0)
Exit ==
  /\ proc = "cleanup"
  /\ CleanupDone
  /\ proc' = "exited"
  /\ UNCHANGED <<hvars, svars, avars>>

Init ==
  /\ contexts = [k \in Keys |-> NoCtx]
  /\ ctxs = [j \in CtxIds |-> FreeCtx]
  /\ lost = FALSE
  /\ req = EmptyBag
  /\ closer = EmptyBag
  /\ tool = IdleTool
  /\ response = "none"
  /\ sseSessions = [id \in SessionIds |-> NoT]
  /\ streamableSessions = [id \in SessionIds |-> NoT]
  /\ transports = [t \in TransportIds |-> NoTransport]
  /\ nTransports = 0
  /\ last = [n |-> 0, route |-> "none", method |-> "none", body |-> "none",
             sid |-> NoSid, status |-> 0, to |-> NoT, code |-> 0,
             result |-> "none"]
  /\ proc = "running"
  /\ config = DefaultConfig
  /\ act = IdleAct
  /\ services = Started

HandlerNext ==
  \/ \E s \in Ids \cup {NoId}, a \in Actions : HandleRequestStart(s, a)
  \/ \E r \in InFlight(req) : HandleRequestRegister(r)
  \/ \E r \in InFlight(req), ok \in BOOLEAN : HandleNavigateEnsureTab(r, ok)
  \/ \E r \in InFlight(req), ok \in BOOLEAN : HandleActionDone(r, ok)
  \/ \E id \in Keys : CloseSessionStart(id)
  \/ \E c \in InFlight(closer) : CloseSessionTabClosed(c)
  \/ \E c \in InFlight(closer) : CloseSessionEnvClosed(c)
  \/ \E c \in InFlight(closer) : CloseSessionCloseFailed(c)
  \/ \E n \in ToolNames \cup ObjectPrototypeNames \cup {"nonexistent_tool"} :
       ToolCallStart(n)
  \/ ToolCallRun
  \/ \E ok \in BOOLEAN : ToolCallDone(ok)

ServerNext ==
  \/ \E sid \in SessionIds \cup {NoSid} : HandleSSEPost(sid)
  \/ HandleSSEGet
  \/ \E t \in TransportIds, ok \in BOOLEAN : HandleSSEConnected(t, ok)
  \/ \E t \in TransportIds : SSEResponseClose(t)
  \/ \E t \in TransportIds : ConnectionClosed(t)
  \/ \E m \in Methods, b \in Bodies, sid \in SessionIds \cup {NoSid} : HandleMcp(m, b, sid)
  \/ \E t \in TransportIds, ok \in BOOLEAN : HandleMcpConnected(t, ok)
  \/ \E m \in RpcMethods, ok \in BOOLEAN : HandleApiMcp(m, ok)
  \/ \E m \in RpcMethods, ok \in BOOLEAN : HandleApiElevenLabsTools(m, ok)
  \/ Signal
  \/ Exit

\* a signal arrives while sessions of /api/browser-action are open
ShutdownNext ==
  \/ \E s \in Ids \cup {NoId}, a \in Actions : HandleRequestStart(s, a)
  \/ \E r \in InFlight(req) : HandleRequestRegister(r)
  \/ \E r \in InFlight(req), ok \in BOOLEAN : HandleNavigateEnsureTab(r, ok)
  \/ \E r \in InFlight(req), ok \in BOOLEAN : HandleActionDone(r, ok)
  \/ \E c \in InFlight(closer) : CloseSessionTabClosed(c)
  \/ \E c \in InFlight(closer) : CloseSessionEnvClosed(c)
  \/ \E c \in InFlight(closer) : CloseSessionCloseFailed(c)
  \/ Signal
  \/ Exit

\* the handler is constructed with any configuration
ActionInit ==
  /\ contexts = [k \in Keys |-> NoCtx]
  /\ ctxs = [j \in CtxIds |-> FreeCtx]
  /\ lost = FALSE
  /\ req = EmptyBag
  /\ closer = EmptyBag
  /\ tool = IdleTool
  /\ response = "none"
  /\ sseSessions = [id \in SessionIds |-> NoT]
  /\ streamableSessions = [id \in SessionIds |-> NoT]
  /\ transports = [t \in TransportIds |-> NoTransport]
  /\ nTransports = 0
  /\ last = [n |-> 0, route |-> "none", method |-> "none", body |-> "none",
             sid |-> NoSid, status |-> 0, to |-> NoT, code |-> 0,
             result |-> "none"]
  /\ proc = "running"
  /\ config \in Configs
  /\ act = IdleAct
  /\ services = Started

\* the tool listings and the action handlers that resolve elements or sleep,
\* each run on its own on a session that has a tab
ActionNext ==
  \/ ListTools
  \/ \E r \in {"tools", "mcp"}, t \in ListedTools, c \in Conversions :
       FormatTools(r, t, c)
  \/ \E k \in {"click", "type"}, e \in Elements \cup {"none"}, ref \in BOOLEAN,
        w \in SUBSET (1..Len(ClickStrategies)) : HandleElementAction(k, e, ref, w)
  \/ StrategySettles
  \/ \E ok \in BOOLEAN : ElementActionDone(ok)
  \/ \E time \in 0..MaxTime, text \in BOOLEAN, ok \in BOOLEAN :
       HandleWait(time, text, ok)

ActionSpec == ActionInit /\ [][ActionNext]_vars

\* the module has been loaded and startServer() has been called
StartupInit ==
  /\ contexts = [k \in Keys |-> NoCtx]
  /\ ctxs = [j \in CtxIds |-> FreeCtx]
  /\ lost = FALSE
  /\ req = EmptyBag
  /\ closer = EmptyBag
  /\ tool = IdleTool
  /\ response = "none"
  /\ sseSessions = [id \in SessionIds |-> NoT]
  /\ streamableSessions = [id \in SessionIds |-> NoT]
  /\ transports = [t \in TransportIds |-> NoTransport]
  /\ nTransports = 0
  /\ last = [n |-> 0, route |-> "none", method |-> "none", body |-> "none",
             sid |-> NoSid, status |-> 0, to |-> NoT, code |-> 0,
             result |-> "none"]
  /\ proc = "running"
  /\ config = DefaultConfig
  /\ act = IdleAct
  /\ services = Uninitialized

\* startServer and the routes of the server it starts
StartupNext ==
  \/ \E ok \in BOOLEAN : ConfigResolved(ok)
  \/ \E ok \in BOOLEAN : ServicesInitialized(ok)
  \/ SignalUninitialized
  \/ \E ok \in BOOLEAN : GetTools(ok)
  \/ ServerNext

StartupSpec == StartupInit /\ [][StartupNext]_vars

\* the requests of POST /api/browser-action and of DELETE
\* /api/session/:sessionId
BrowserActionNext ==
  \/ \E s \in Ids \cup {NoId}, ip \in ClientIps \cup {NoId}, a \in Actions :
       BrowserAction(s, ip, a)
  \/ \E r \in InFlight(req) : HandleRequestRegister(r)
  \/ \E r \in InFlight(req), ok \in BOOLEAN : HandleNavigateEnsureTab(r, ok)
  \/ \E r \in InFlight(req), ok \in BOOLEAN : HandleActionDone(r, ok)
  \/ \E id \in Keys : CloseSessionStart(id)
  \/ \E c \in InFlight(closer) : CloseSessionTabClosed(c)
  \/ \E c \in InFlight(closer) : CloseSessionEnvClosed(c)
  \/ \E c \in InFlight(closer) : CloseSessionCloseFailed(c)

BrowserActionSpec == Init /\ [][BrowserActionNext]_vars

\* the ElevenLabsHandler under every interleaving of its asynchronous methods
HandlerSpec == Init /\ [][HandlerNext]_vars

\* the /sse and /mcp routes under every interleaving of requests and closures
ServerSpec == Init /\ [][ServerNext]_vars

\* the routes, where every promise the server itself awaits settles
\* (createConnection and connection.close() are local calls) and the event
\* loop runs the continuation of a settled await; the clients are free to
\* send nothing and never to close
ServerLiveSpec ==
  /\ Init /\ [][ServerNext]_vars
  /\ \A t \in TransportIds :
       /\ WF_vars(\E ok \in BOOLEAN : HandleSSEConnected(t, ok))
       /\ WF_vars(\E ok \in BOOLEAN : HandleMcpConnected(t, ok))
       /\ WF_vars(ConnectionClosed(t))
  /\ WF_vars(Exit)

\* shutdown of the handler: the event loop runs the continuation of a settled
\* await (Exit, once every closeSession of cleanup has resolved); a close call
\* of the browser may never settle, so no fairness is stated for the steps
\* of closeSession
ShutdownSpec ==
  /\ Init /\ [][ShutdownNext]_vars
  /\ WF_vars(Exit)

\* ------------------------------------------------------------ helpers
Created == {k \in CtxIds : ctxs[k].reg # "free"}
Constructed == 1..nTransports
IsKeyOf(key, sessionId) ==
  key = sessionId \/ (key = "default" /\ sessionId = NoId)
\* the step answers a request on the given route
Answers(route) == last'.n # last.n /\ last'.route = route
ConnClosing(t) == transports[t].conn \in {"closing", "closed"}

\* ------------------------------------------------------------- claims

\* C1: for every session id and every interleaving of handleRequest calls,
\* exactly one Context is created for the id while it is registered: no
\* Context of the id is overwritten in the contexts map, and at most one
\* Context constructed for the id is awaiting registration or registered.
C1_OneContextPerSession ==
  /\ \A k \in Created : ctxs[k].reg # "overwritten"
  /\ \A r \in InFlight(req) :
       r.pc = "awaitCreate" =>
         /\ CopiesIn(r, req) = 1
         /\ \A b \in Keys : IsKeyOf(b, r.sessionId) => contexts[b] = NoCtx
         /\ \A q \in InFlight(req) :
              (q.pc = "awaitCreate" /\ q.sessionId = r.sessionId) => q = r

\* C2: the contexts map is injective, and a handleRequest for session id A
\* never operates on a Context that is bound to another session id or that
\* a handleRequest for another session id operates on.
C2_ContextsIsolated ==
  /\ \A a, b \in Keys :
       (a # b /\ contexts[a] # NoCtx) => contexts[a] # contexts[b]
  /\ \A r \in InFlight(req) :
       /\ \A b \in Keys : contexts[b] = r.ctx => IsKeyOf(b, r.sessionId)
       /\ \A q \in InFlight(req) : q.ctx = r.ctx => q.sessionId = r.sessionId

\* two sessions have a Context each while a request acts on one of them
C2_Witness ==
  /\ contexts["s1"] # NoCtx
  /\ contexts["default"] # NoCtx
  /\ \E r \in InFlight(req) : r.pc = "acting" /\ r.sessionId = "s1"

\* C3: every Context the handler has constructed, once the handleRequest that
\* constructed it is past its registration or the tool handler that
\* constructed it has returned, is registered in the contexts map or was
\* removed from it by closeSession.
C3_EveryContextRegistered ==
  \A k \in Created :
    (/\ ~ \E r \in InFlight(req) : r.pc = "awaitCreate" /\ r.ctx = k
     /\ tool.ctx # k)
      => (ctxs[k].reg \in {"set", "deleted"} /\ ~lost)

\* C4: a POST /mcp whose body method is initialize and which carries no
\* mcp-session-id header is handed to a new transport and registers a new
\* session id in streamableSessions.
C4_InitializeCreatesSession ==
  [][(/\ Answers("mcp")
      /\ last'.method = "POST" /\ last'.body = "initialize"
      /\ last'.sid = NoSid)
       => /\ last'.to # NoT
          /\ Registered(streamableSessions') \ Registered(streamableSessions) # {}]_vars

\* C5: every request to /mcp with an mcp-session-id header that is not a key
\* of streamableSessions is answered 404, is forwarded to no transport and
\* creates no session.
C5_UnknownSessionIs404 ==
  [][(/\ Answers("mcp")
      /\ last'.sid # NoSid
      /\ last'.sid \notin Registered(streamableSessions))
       => /\ last'.status = 404
          /\ last'.to = NoT
          /\ UNCHANGED <<streamableSessions, nTransports>>]_vars

\* C6: every request to /mcp with an mcp-session-id header equal to a
\* registered id S is delegated to the transport registered under S and
\* creates no transport and no registry entry.
C6_KnownSessionDelegated ==
  [][(/\ Answers("mcp")
      /\ last'.sid # NoSid
      /\ last'.sid \in Registered(streamableSessions))
       => /\ last'.to = streamableSessions[last'.sid]
          /\ nTransports' = nTransports
          /\ Registered(streamableSessions') \subseteq Registered(streamableSessions)]_vars

\* C7: a POST /sse whose sessionId parameter is not a key of sseSessions is
\* answered 404 (400 when the parameter is missing), is forwarded to no
\* transport, and leaves sseSessions unchanged.
C7_SsePostUnknown ==
  [][(/\ Answers("sse")
      /\ last'.method = "POST"
      /\ last'.sid \notin Registered(sseSessions))
       => /\ last'.status = (IF last'.sid = NoSid THEN 400 ELSE 404)
          /\ last'.to = NoT
          /\ UNCHANGED sseSessions]_vars

\* a POST with an id that is not registered was answered 404 while another
\* session is registered
C7_Witness ==
  /\ last.route = "sse" /\ last.method = "POST"
  /\ last.sid # NoSid /\ last.status = 404
  /\ Registered(sseSessions) # {}

\* C8: once GET /sse has registered transport T under id S and until T's
\* response closes, every POST /sse?sessionId=S is delivered to T; once the
\* close listener has run, every POST /sse?sessionId=S is answered 404.
C8_SsePostFollowsLifetime ==
  [][(Answers("sse") /\ last'.method = "POST")
       => \A t \in Constructed :
            (transports[t].kind = "sse" /\ transports[t].sessionId = last'.sid)
              => /\ ~transports[t].closed => last'.to = t
                 /\ ConnClosing(t) => last'.status = 404]_vars

\* a POST for the id of a session whose close listener has run got 404
C8_Witness ==
  /\ last.route = "sse" /\ last.method = "POST" /\ last.status = 404
  /\ \E t \in Constructed :
       /\ transports[t].kind = "sse" /\ transports[t].sessionId = last.sid
       /\ ConnClosing(t)

\* C9: no lookup in sseSessions yields a transport whose Connection is being
\* closed: every registered SSE transport has a Connection on which close()
\* has not been started.
C9_NoClosingTransportRegistered ==
  \A id \in Registered(sseSessions) : ~ConnClosing(sseSessions[id])

\* a Connection is being closed, its id is gone, and a POST for it got 404
C9_Witness ==
  \E t \in Constructed :
    /\ transports[t].conn = "closing"
    /\ sseSessions[transports[t].sessionId] = NoT
    /\ last.route = "sse" /\ last.method = "POST"
    /\ last.sid = transports[t].sessionId /\ last.status = 404

\* C10: a handleRequest never obtains from the contexts map a Context on
\* which closeSession has already started closing tabs or the browser
\* context.
C10_NoHalfClosedContext ==
  \A r \in InFlight(req) : ~r.stale

\* transport t has no entry in either registry
Unregistered(t) ==
  \A id \in SessionIds : sseSessions[id] # t /\ streamableSessions[id] # t

\* C11: once the response / transport of a session has closed, its entry is
\* eventually removed from sseSessions / streamableSessions (as long as the
\* process lives), whether the closure comes before or after createConnection
\* has settled and whether createConnection resolves or rejects.
C11_ClosedSessionRemoved ==
  \A t \in TransportIds :
    transports[t].closed ~> (Unregistered(t) \/ proc = "exited")

\* C12: in the step in which a transport whose Connection createConnection
\* has returned reports closure, close() is started on that Connection.
C12_ClosureClosesConnection ==
  [][\A t \in TransportIds :
       (/\ ~transports[t].closed /\ transports'[t].closed
        /\ transports[t].conn = "open")
         => transports'[t].conn = "closing"]_vars

\* C13: after SIGTERM or SIGINT the process eventually exits.
C13_SignalLeadsToExit == (proc = "cleanup") ~> (proc = "exited")

\* C14: when the process exits after a signal, no session is left undrained:
\* every Connection registered in sseSessions or streamableSessions has had
\* close() started, and no Context is left in the contexts map.
C14_DrainedBeforeExit ==
  proc = "exited" =>
    /\ \A id \in Registered(sseSessions) : ConnClosing(sseSessions[id])
    /\ \A id \in Registered(streamableSessions) :
         ConnClosing(streamableSessions[id])
    /\ ContextsKeys = {}

\* C15: closeSession never raises and is idempotent: whenever a closeSession
\* resolves, whatever its close calls did, its id is not a key of contexts;
\* a closeSession starts to close something only for an id that is a key of
\* contexts, and nothing is closed but by a closeSession in flight.
C15_CloseSessionIdempotent ==
  [][/\ \A c \in InFlight(closer) :
          closer' = Remove(closer, c) => contexts'[c.id] = NoCtx
     /\ \A d \in InFlight(closer') :
          BagCardinality(closer') > BagCardinality(closer)
          /\ CopiesIn(d, closer') > CopiesIn(d, closer)
            => contexts[d.id] = d.ctx /\ d.ctx # NoCtx
     /\ \A k \in CtxIds :
          (/\ ctxs'[k].reg # "free"
           /\ ctxs'[k].tabs < ctxs[k].tabs \/ (ctxs[k].env /\ ~ctxs'[k].env))
            => Closing(k)]_vars

\* a closeSession whose close call failed has resolved: its Context, still
\* with an open tab, is no longer in the contexts map
C15_Witness ==
  \E k \in Created :
    /\ ctxs[k].reg = "deleted" /\ ctxs[k].tabs > 0
    /\ \A key \in Keys : contexts[key] # k
    /\ closer = EmptyBag

\* C16: a closeSession that is closing the tabs of a Context never finishes
\* without going on to close the browser context, when there is one.
C16_TabsThenBrowserContext ==
  [][\A c \in InFlight(closer) :
       (c.pc = "closingTabs" /\ closer' = Remove(closer, c))
         => ~ctxs[c.ctx].env]_vars

\* C17: when a browser_navigate tool call of the tools/call route returns
\* successfully, the Context it navigated stays bound to a key of contexts,
\* where the following tool call of the session finds it.
C17_ToolContextKept ==
  [][(/\ tool.pc = "running" /\ tool.name = "browser_navigate"
      /\ tool'.pc = "idle" /\ response' = "toolResult")
       => \E key \in Keys : contexts'[key] = tool.ctx]_vars

\* C18: a handleRequest action that needs a tab proceeds only on a Context
\* that has one (otherwise it answers success:false), and a tab or a browsing
\* environment is created only by ensureTab of a navigate (or by the
\* browser_navigate tool in its own Context).
C18_NoTabFailsFast ==
  [][/\ \A r \in InFlight(req') :
          (/\ r.action = "screenshot" /\ r.pc = "acting"
           /\ CopiesIn(r, req') > CopiesIn(r, req))
            => CurrentTabOrDie(ctxs[r.ctx])
     /\ \A k \in CtxIds :
          (ctxs'[k].tabs > ctxs[k].tabs \/ (ctxs'[k].env /\ ~ctxs[k].env))
            => \/ \E r \in InFlight(req) :
                    r.ctx = k /\ r.action = "navigate" /\ r.pc = "ensureTab"
               \/ tool.ctx = k /\ tool.name = "browser_navigate"]_vars

\* an action that needs a tab was answered success:false on a session whose
\* Context has no tab and no browsing environment, and none was created
C18_Witness ==
  /\ response = "noTab"
  /\ \E key \in ContextsKeys :
       ctxs[contexts[key]].tabs = 0 /\ ~ctxs[contexts[key]].env

Failures == {"fail", "noTab"}

\* C19: every handleRequest that returns answers success:true or success:false
\* (it never rejects), and a step that answers success:false removes no entry
\* of contexts (it may only register the request's new Context) and closes
\* nothing of a registered Context.
C19_FailureKeepsContext ==
  [][/\ \A r \in InFlight(req) :
          req' = Remove(req, r) => response' \in {"success"} \cup Failures
     /\ (/\ response' \in Failures
         /\ response' # response \/ BagCardinality(req') < BagCardinality(req))
          => \A key \in Keys :
               /\ \/ contexts'[key] = contexts[key]
                  \/ \E r \in InFlight(req) :
                       /\ r.pc = "awaitCreate" /\ key = SessionKey(r.sessionId)
                       /\ contexts'[key] = r.ctx
               /\ contexts'[key] # NoCtx =>
                    /\ ctxs'[contexts'[key]].tabs >= ctxs[contexts'[key]].tabs
                    /\ ctxs[contexts'[key]].env => ctxs'[contexts'[key]].env]_vars

\* an action failed (success:false) after a navigation: no request is in
\* flight and the session's Context is registered with its tab
C19_Witness ==
  /\ response = "fail"
  /\ req = EmptyBag
  /\ contexts["s1"] # NoCtx
  /\ ctxs[contexts["s1"]].tabs > 0

\* C20: on POST /api/mcp and POST /api/elevenlabs-tools a request whose method
\* is none of initialize, tools/list, tools/call is answered with a JSON-RPC
\* error whose code is not -32603.
C20_UnknownMethodDistinctCode ==
  [][(/\ last'.n # last.n
      /\ last'.route \in {"api/mcp", "api/elevenlabs-tools"}
      /\ last'.body \notin {"initialize", "tools/list", "tools/call"})
       => (last'.code # 0 /\ last'.code # InternalError)]_vars

\* C21: on every endpoint that routes JSON-RPC methods (POST /mcp, POST
\* /api/mcp, POST /api/elevenlabs-tools) an initialize request is answered
\* with the fixed initialize result ({protocolVersion, capabilities,
\* serverInfo}) and changes no session registry and no contexts map.
C21_InitializeFixedResult ==
  [][(/\ last'.n # last.n
      /\ last'.route \in {"mcp", "api/mcp", "api/elevenlabs-tools"}
      /\ last'.method = "POST" /\ last'.body = "initialize")
       => /\ last'.code = 0
          /\ last'.result = "initializeResult"
          /\ UNCHANGED <<sseSessions, streamableSessions, contexts>>]_vars

\* C22: a tools/call that is answered without a tool handler having run (the
\* name is no tool of the registry) is answered with an error, constructs no
\* Context and changes no entry of contexts.
C22_UnknownToolIsError ==
  [][(/\ tool.pc = "idle" /\ tool'.pc = "idle"
      /\ response' \in {"toolResult", "toolError"}
      /\ response' # response)
       => /\ response' = "toolError"
          /\ contexts' = contexts
          /\ ctxs' = ctxs]_vars

\* a handleRequest is executing its action on its Context
Running(r) == r.pc \in {"ensureTab", "acting"}

\* C27: no two handleRequest invocations are executing their actions on the
\* same Context at the same time.
C27_OneActionPerContext ==
  \A r, q \in InFlight(req) :
    (Running(r) /\ Running(q) /\ r.ctx = q.ctx)
      => (r = q /\ CopiesIn(r, req) = 1)

\* C29: no id is a key of sseSessions and of streamableSessions at the same
\* time, and no step replaces the transport registered under an id by
\* another one.
C29_SessionIdsUnique ==
  [][/\ Registered(sseSessions') \cap Registered(streamableSessions') = {}
     /\ \A id \in Registered(sseSessions) :
          sseSessions'[id] \in {NoT, sseSessions[id]}
     /\ \A id \in Registered(streamableSessions) :
          streamableSessions'[id] \in {NoT, streamableSessions[id]}]_vars

\* a session of each kind is registered
C29_Witness ==
  Registered(sseSessions) # {} /\ Registered(streamableSessions) # {}

\* C30: a POST /sse is forwarded only to a transport whose Connection
\* createConnection has returned.
C30_LookupHasConnection ==
  [][(Answers("sse") /\ last'.method = "POST" /\ last'.to # NoT)
       => transports[last'.to].conn = "open"]_vars

\* the tools of the catalog that the configuration makes visible
Visible(t) == t.capability = "core" \/ t.capability \in config.capabilities
Names(tools) == [i \in 1..Len(tools) |-> tools[i].name]

\* C23: the tools the handler lists (getToolDefinitions) and serves (the
\* keys of getClientToolsConfig) are exactly the tools of the catalog selected
\* by config.vision whose capability is "core" or in config.capabilities, in
\* catalog order.
C23_ToolsFilteredByCapability ==
  act.kind = "toolDefinitions" =>
    LET expected ==
          Names(SelectSeq(IF config.vision THEN VisionTools ELSE SnapshotTools,
                          Visible))
    IN /\ Names(act.out) = expected
       /\ act.keys = expected

\* C24: the strategies of handleClick / handleType are invoked in their
\* listed order, none twice, and none after a strategy that succeeded.
C24_StrategiesInOrder ==
  act.kind \in {"click", "type"} =>
    /\ Len(act.log) <= Len(Strategies(act.kind))
    /\ \A j \in 1..Len(act.log) : act.log[j] = j
    /\ \A j \in 1..(Len(act.log) - 1) : act.log[j] \notin act.works

\* the second strategy succeeded after the first failed, and the third, which
\* would succeed as well, was not invoked
C24_Witness ==
  /\ act.kind = "click" /\ act.pc = "done"
  /\ act.works = {2, 3}
  /\ act.log = <<1, 2>>
  /\ act.result.success

\* C25: when every strategy has failed, the action is answered success:false
\* with the element-not-found error that names the requested element; an
\* action that went through the strategies succeeds only if one of them did.
C25_AllFailIsNotFound ==
  (act.kind \in {"click", "type"} /\ act.pc = "done" /\ act.log # <<>>) =>
    /\ (\A j \in 1..Len(act.log) : act.log[j] \notin act.works)
         => /\ ~act.result.success
            /\ act.result.error = "notFound"
            /\ act.result.names = act.element
    /\ act.result.success
         => \E j \in 1..Len(act.log) : act.log[j] \in act.works

\* every strategy of a type request was invoked and failed
C25_Witness ==
  /\ act.kind = "type" /\ act.pc = "done"
  /\ act.works = {}
  /\ Len(act.log) = Len(TypeStrategies)
  /\ act.result = Failure("notFound", "Submit")

\* C26: the sleep of the wait action lasts at most 30000 ms: time*1000 ms
\* when that is at most 30000, and 30000 ms otherwise.
C26_SleepCapped ==
  act.kind = "wait" =>
    /\ act.slept <= MaxSleepMs
    /\ act.slept = IF act.time * 1000 <= MaxSleepMs
                   THEN act.time * 1000 ELSE MaxSleepMs

\* a request for more than 30 seconds slept 30000 ms
C26_Witness ==
  act.kind = "wait" /\ act.time * 1000 > MaxSleepMs /\ act.slept = MaxSleepMs

ExactShape(d) ==
  /\ DOMAIN d = {"name", "description", "parameters"}
  /\ DOMAIN d.parameters = {"type", "properties", "required"}
  /\ d.parameters.type = "object"
  /\ \E n \in 0..2 : DOMAIN d.parameters.required = 1..n

\* the tool's schema declares no mandatory field or has no usable properties
NoMandatory(kind, t) ==
  IF kind = "toolDefinitions"
  THEN \/ ~t.inputSchema.hasShape
       \/ \A k \in DOMAIN t.inputSchema.field : ~t.inputSchema.field[k].mandatory
  ELSE \/ ~t.inputSchema.present
       \/ "properties" \notin DOMAIN t.inputSchema
       \/ "required" \notin DOMAIN t.inputSchema

\* C28: every descriptor of a tool list (getToolDefinitions, GET /tools, the
\* /mcp listing) has exactly the shape {name, description, parameters:{type:
\* "object", properties, required}}, required being a sequence, the empty one
\* when the schema declares no mandatory field or has no usable properties.
C28_DescriptorShape ==
  act.kind \in {"toolDefinitions", "formattedTools"} =>
    \A i \in DOMAIN act.out :
      /\ ExactShape(act.out[i])
      /\ NoMandatory(act.kind, act.tools[i])
           => act.out[i].parameters.required = <<>>

\* GET /tools formatted a tool whose schema has properties and no `required`
C28_Witness ==
  /\ act.kind = "formattedTools" /\ act.route = "tools"
  /\ act.tools[1].inputSchema = [present |-> TRUE, properties |-> {"url"}]
  /\ act.out[1].parameters.required = <<>>

\* C31: once cleanup() has resolved after a shutdown signal (the process
\* exits), no Context is registered in contexts, whatever handleRequest calls
\* arrived while cleanup was in progress.
C31_NoContextAfterCleanup == proc = "exited" => ContextsKeys = {}

\* a closeSession started by cleanup() ends in this step
CleanupCloserEnds(c) ==
  /\ c \in InFlight(closer)
  /\ c.by = "cleanup"
  /\ CopiesIn(c, closer') < CopiesIn(c, closer)
  /\ [c EXCEPT !.pc = "closingEnv"] \notin InFlight(closer')

\* C32: cleanup() starts closeSession for every key registered when it
\* begins; a closeSession of cleanup that ends, by a failed close call or not,
\* has removed the entry of its session and leaves every other closeSession
\* of cleanup in progress and cleanup pending; cleanup resolves (the process
\* exits) only when all of them have ended.
C32_CleanupClosesEverySession ==
  [][/\ (proc = "running" /\ proc' = "cleanup") =>
          \A key \in ContextsKeys :
            \/ contexts'[key] = NoCtx
            \/ \E c \in InFlight(closer') :
                 c.by = "cleanup" /\ c.id = key /\ c.ctx = contexts[key]
     /\ \A c \in InFlight(closer) :
          CleanupCloserEnds(c) =>
            /\ contexts'[c.id] = NoCtx
            /\ proc' = proc
            /\ \A d \in InFlight(closer) :
                 (d # c /\ d.by = "cleanup") =>
                   CopiesIn(d, closer') = CopiesIn(d, closer)
     /\ (proc = "cleanup" /\ proc' = "exited") => CleanupDone]_vars

\* during cleanup one session was removed although its Context is still open
\* (its close failed), and the closeSession of the other session goes on
C32_Witness ==
  /\ proc = "cleanup"
  /\ \E k \in CtxIds : ctxs[k].reg = "deleted" /\ ctxs[k].tabs > 0
  /\ \E c \in InFlight(closer) :
       c.by = "cleanup" /\ contexts[c.id] = c.ctx /\ ctxs[c.ctx].reg = "set"

C34_ListensAfterInitialization ==
  /\ services.listening => (services.mcpServer /\ services.elevenLabsHandler)
  /\ last.status # 503
  /\ services.pc = "failed" => (proc = "failed" /\ ~services.listening)

\* the started server has answered GET /tools with the tool list
C34_Witness ==
  /\ services.pc = "started" /\ services.listening
  /\ last.route = "tools" /\ last.status = 200

\* the key a request resolves to: the body's sessionId, else the client
\* address, else 'default'
ResolvedKey(sessionId, ip) ==
  IF sessionId # NoId THEN sessionId ELSE IF ip # NoId THEN ip ELSE "default"

\* the request that a POST /api/browser-action has started is bound to the
\* Context registered under its resolved key, or to a new one for that key
BoundToResolvedKey ==
  \A s \in Ids \cup {NoId}, ip \in ClientIps \cup {NoId}, a \in Actions :
    BrowserAction(s, ip, a) =>
      \A r \in InFlight(req') :
        CopiesIn(r, req') > CopiesIn(r, req) =>
          /\ SessionKey(r.sessionId) = ResolvedKey(s, ip)
          /\ contexts[ResolvedKey(s, ip)] # NoCtx
               => r.ctx = contexts[ResolvedKey(s, ip)]

\* C35: a /api/browser-action request is bound to the Context of the key it
\* resolves to (body sessionId, else client address, else 'default'), and two
\* requests in progress use the same Context exactly when they resolve to the
\* same key.
C35_SameKeySameContext ==
  [][/\ BoundToResolvedKey
     /\ \A r, q \in InFlight(req') :
          (r.ctx = q.ctx) <=> (SessionKey(r.sessionId) = SessionKey(q.sessionId))
    ]_vars
====
